---- MODULE Spec2Model ----
(***************************************************************************)
(* Model of pages/02_Portfolio_Management.py: the memoized loader, the     *)
(* view switch kept in the session state, and the total-book render        *)
(* (month filter, summary, sidebar filters, balance slider, filtered       *)
(* subset, rating chart data, back button).                                *)
(*                                                                         *)
(* Data representation.  A loan record keeps the columns the page reads:   *)
(* Date <<year, month, day>>, Franchise, Sector, Rating, Product, Margin   *)
(* (in percent) and Balance.  A Balance is <<>> when null (NaN) and <<u>>  *)
(* otherwise, u counting 1/Unit-ths of a pound, so fractional balances     *)
(* exist.  A rendered "YYYY-MM" string is the number year*100+month.  The  *)
(* columns that are only summed or formatted for display (RWA, income,     *)
(* PD, LGD, ...) and the display formatting of the table are left out:     *)
(* they feed no widget, filter or button.                                  *)
(***************************************************************************)
EXTENDS Integers, Sequences, FiniteSets, TLC

VARIABLES file,      \* what ./data/loan_data.parquet is: [status, rows]
          plotly,    \* whether plotly.express can be imported
          cache,     \* st.cache_data entry of load_loan_data: <<>> or <<result>>
          lock,      \* holder of the cache's compute lock (0: free)
          reads,     \* how many times pd.read_parquet has been started
          sessions,  \* the connected sessions
          pc,        \* per session: position of its script run
          pm_view,   \* per session: st.session_state.pm_view
          ws,        \* per session: stored widget states
          event,     \* per session: the interaction its pending run answers
          out        \* per session: the page its last completed run rendered

vars == <<file, plotly, cache, lock, reads, sessions, pc, pm_view, ws, event, out>>

\* ------------------------------------------------------------------ bounds
MaxRows == 2        \* rows of the input file under Spec
MaxChartRows == 3   \* rows of the input file under SpecRatings
NumSessions == 2    \* sessions under SpecConcurrent
Unit == 2           \* balance resolution: 1/Unit of a pound

\* ------------------------------------------------------------------ helpers
None == <<>>
Some(x) == <<x>>

Range(s) == {s[i] : i \in 1..Len(s)}

RECURSIVE SeqsUpTo(_, _)
SeqsUpTo(S, n) ==
    IF n = 0 THEN {<<>>}
    ELSE LET shorter == SeqsUpTo(S, n - 1)
         IN  shorter \cup {Append(q, x) : q \in {t \in shorter : Len(t) = n - 1}, x \in S}

\* Stable insertion sort of a sequence of [k, v] records by ascending key k.
RECURSIVE Insert(_, _)
Insert(s, x) ==
    IF s = <<>> THEN <<x>>
    ELSE IF x.k < s[1].k THEN <<x>> \o s
    ELSE <<s[1]>> \o Insert(Tail(s), x)

RECURSIVE SortByKey(_)
SortByKey(s) ==
    IF s = <<>> THEN <<>>
    ELSE Insert(SortByKey(SubSeq(s, 1, Len(s) - 1)), s[Len(s)])

Values(s) == [i \in 1..Len(s) |-> s[i].v]

\* The distinct elements of s in order of first appearance (Series.unique()).
RECURSIVE unique(_)
unique(s) ==
    IF s = <<>> THEN <<>>
    ELSE LET front == unique(SubSeq(s, 1, Len(s) - 1))
             x == s[Len(s)]
         IN  IF x \in Range(front) THEN front ELSE Append(front, x)

Column(df, c) == [i \in 1..Len(df) |-> df[i][c]]

\* Python's order on the strings that occur (all start with a capital letter).
StringOrder == <<"Corporate", "Energy", "Loan", "RCF", "Retail", "Utilities">>
StrRank(x) == CHOOSE i \in 1..Len(StringOrder) : StringOrder[i] = x
sorted(s) == Values(SortByKey([i \in 1..Len(s) |-> [k |-> StrRank(s[i]), v |-> s[i]]]))

\* ------------------------------------------------------------------ numbers
IsNaN(b) == b = <<>>
\* int(x): truncation toward zero of a balance given in units.
int(u) == IF u >= 0 THEN u \div Unit ELSE -((-u) \div Unit)
\* Series >= n and Series <= n for a whole number of pounds n; NaN compares False.
ge(b, n) == ~IsNaN(b) /\ b[1] >= n * Unit
le(b, n) == ~IsNaN(b) /\ b[1] <= n * Unit

RECURSIVE SumSkipNa(_)
SumSkipNa(bs) ==
    IF bs = <<>> THEN 0
    ELSE (IF IsNaN(bs[1]) THEN 0 ELSE bs[1][1]) + SumSkipNa(Tail(bs))

RECURSIVE Dot(_, _)
Dot(ms, bs) ==
    IF ms = <<>> THEN 0 ELSE ms[1] * bs[1][1] + Dot(Tail(ms), Tail(bs))

\* np.average(a, weights=w): sum(a*w)/sum(w) as the fraction <<num, den>>;
\* NaN (<<>>) when a weight is NaN.
np_average(a, w) ==
    IF \E i \in 1..Len(w) : IsNaN(w[i]) THEN <<>>
    ELSE <<Dot(a, w), SumSkipNa(w)>>

Min(S) == CHOOSE x \in S : \A y \in S : x <= y
Max(S) == CHOOSE x \in S : \A y \in S : x >= y
NonNull(bs) == {bs[i][1] : i \in {j \in 1..Len(bs) : ~IsNaN(bs[j])}}

\* ------------------------------------------------------------------ dates
to_period(date) == <<date[1], date[2]>>
strftime(p) == p[1] * 100 + p[2]
Period(str) == <<str \div 100, str % 100>>
\* sorted(periods, reverse=True): a period's ordinal is its month count.
sorted_reverse(ps) ==
    Values(SortByKey([i \in 1..Len(ps) |-> [k |-> -(ps[i][1] * 12 + ps[i][2]), v |-> ps[i]]]))

\* ------------------------------------------------------------------ loader
\* pd.read_parquet(data_file_path): the exception raised (its classes, most
\* specific first) or None.
read_parquet(f) ==
    CASE f.status = "missing"   -> <<"FileNotFoundError", "OSError", "Exception">>
      [] f.status = "no_engine" -> <<"ImportError", "Exception">>
      [] f.status = "corrupt"   -> <<"ArrowInvalid", "Exception">>
      [] OTHER                  -> None

\* pd.to_datetime(df['Date']): fails on a missing or unparseable Date column.
to_datetime(f) ==
    IF f.status = "bad_date" THEN <<"KeyError", "Exception">> ELSE None

\* Fault variant of load_loan_data: the last handler (except Exception) missing.
load_loan_data_no_catch_all(f) ==
    LET exc == IF read_parquet(f) # None THEN read_parquet(f) ELSE to_datetime(f)
    IN  IF exc = None THEN [df |-> f.rows, msgs |-> {}, exc |-> None]
        ELSE IF "FileNotFoundError" \in Range(exc)
             THEN [df |-> <<>>, msgs |-> {"error: data file not found"}, exc |-> None]
        ELSE IF "ImportError" \in Range(exc)
             THEN [df |-> <<>>, msgs |-> {"error: pyarrow not installed"}, exc |-> None]
        ELSE [df |-> <<>>, msgs |-> {}, exc |-> exc]

\* Lines 20-36: the try block and its three handlers, tried in order.
load_loan_data(f) ==
    LET exc == IF read_parquet(f) # None THEN read_parquet(f) ELSE to_datetime(f)
    IN  IF exc = None THEN [df |-> f.rows, msgs |-> {}, exc |-> None]
        ELSE IF "FileNotFoundError" \in Range(exc)
             THEN [df |-> <<>>, msgs |-> {"error: data file not found"}, exc |-> None]
        ELSE IF "ImportError" \in Range(exc)
             THEN [df |-> <<>>, msgs |-> {"error: pyarrow not installed"}, exc |-> None]
        ELSE IF "Exception" \in Range(exc)
             THEN [df |-> <<>>, msgs |-> {"error: loading the data file"}, exc |-> None]
        ELSE [df |-> <<>>, msgs |-> {}, exc |-> exc]

\* ------------------------------------------------------------------ widgets
\* Fault variant of WidgetValue: a stored value outlives a change of parameters.
WidgetValueAlwaysStored(w, id, default) ==
    IF w # None THEN w[1].val ELSE default

\* A widget created without a key is identified by its parameters: its stored
\* value is used when it is created again with the same parameters, and its
\* default otherwise.
WidgetValue(w, id, default) ==
    IF w # None /\ w[1].id = id THEN w[1].val ELSE default

Stored(id, val) == Some([id |-> id, val |-> val])

NoWidgets == [month |-> None, franchise |-> None, sector |-> None,
              rating |-> None, product |-> None, balance |-> None]

MultiselectNames == {"franchise", "sector", "rating", "product"}

\* st.sidebar.multiselect(label, options, default=options): the selected set.
multiselect(w, options) == WidgetValue(w, options, Range(options))

\* ------------------------------------------------------------------ view state
\* Fault variant of set_view: the session state is not written.
set_view_ignored(view, view_name) == view

\* Lines 44-46: the new value of st.session_state.pm_view.
set_view(view, view_name) == view_name

\* ------------------------------------------------------------------ render
rating_options_all == <<"AAA", "AA", "A", "BBB", "BB", "B", "CCC">>

BlankOut ==
    [view |-> "none", exception |-> "", messages |-> {}, buttons |-> {},
     month_options |-> <<>>, selected_month_str |-> None, df_monthly |-> <<>>,
     total_balance |-> None, avg_margin |-> None,
     options |-> None, selected |-> None, slider |-> None, balance_range |-> None,
     df_filtered |-> None, rating_counts |-> None,
     month_changed |-> FALSE]

\* Fault variant of avg_margin: the weights forgotten (a plain mean).
avg_margin_unweighted(df_monthly) ==
    IF SumSkipNa(Column(df_monthly, "Balance")) > 0
    THEN <<SumSkipNa([i \in 1..Len(df_monthly) |-> <<df_monthly[i].Margin>>]), Len(df_monthly)>>
    ELSE <<0, 1>>

\* Lines 99-108: total balance and the weighted average margin.
avg_margin(df_monthly) ==
    IF SumSkipNa(Column(df_monthly, "Balance")) > 0
    THEN np_average(Column(df_monthly, "Margin"), Column(df_monthly, "Balance"))
    ELSE <<0, 1>>

\* Fault variant of slider_bounds: lines 141-142 missing.
slider_bounds_no_nudge(df_monthly) ==
    LET bs == NonNull(Column(df_monthly, "Balance"))
        min_balance == int(Min(bs))
        max_balance == int(Max(bs))
        step_val == Max({1, (max_balance - min_balance) \div 100})
    IN  [min_value |-> min_balance, max_value |-> max_balance, step |-> step_val]

\* Lines 138-142: the slider's bounds and step, in whole pounds.
slider_bounds(df_monthly) ==
    LET bs == NonNull(Column(df_monthly, "Balance"))
        min_balance == int(Min(bs))
        max_balance == int(Max(bs))
        step_val == Max({1, (max_balance - min_balance) \div 100})
    IN  [min_value |-> min_balance,
         max_value |-> IF min_balance >= max_balance THEN min_balance + step_val
                       ELSE max_balance,
         step |-> step_val]

\* Fault variant of isin: the mask is all True.
isin_always(x, values) == TRUE

\* Series.isin(values).
isin(x, values) == x \in values

\* Lines 157-164: the conjunction of the six masks.
apply_filters(df_monthly, sel, balance_range) ==
    SelectSeq(df_monthly, LAMBDA r :
        /\ isin(r.Franchise, sel.franchise)
        /\ isin(r.Sector, sel.sector)
        /\ isin(r.Rating, sel.rating)
        /\ isin(r.Product, sel.product)
        /\ ge(r.Balance, balance_range[1])
        /\ le(r.Balance, balance_range[2]))

\* Series.value_counts().reset_index(): one row per distinct value, most
\* frequent first, ties in order of first appearance.
value_counts(col) ==
    LET u == unique(col)
        n(x) == Cardinality({i \in 1..Len(col) : col[i] = x})
    IN  Values(SortByKey([i \in 1..Len(u) |->
            [k |-> -n(u[i]), v |-> [rating |-> u[i], count |-> n(u[i])]]]))

\* The position of a rating in the categories; a value outside them becomes
\* NaN, which sort_values puts last.
CategoryCode(r) ==
    IF r \in Range(rating_options_all)
    THEN CHOOSE i \in 1..Len(rating_options_all) : rating_options_all[i] = r
    ELSE Len(rating_options_all) + 1

\* Fault variant of rating_counts: lines 185-186 missing (count order kept).
rating_counts_unsorted(df_filtered) == value_counts(Column(df_filtered, "Rating"))

\* Lines 183-186: the counts per rating, put in the order of the scale.
rating_counts(df_filtered) ==
    LET counts == value_counts(Column(df_filtered, "Rating"))
    IN  Values(SortByKey([i \in 1..Len(counts) |->
            [k |-> CategoryCode(counts[i].rating), v |-> counts[i]]]))

\* Lines 69-254: the total_book branch, given what load_loan_data returned
\* (res), the session's stored widget states (w) and whether plotly imports.
\* Yields what was rendered and the widget states kept (those of the widgets
\* created in this run).
total_book(res, w, plotly_ok) ==
    LET df_full == res.df
        base == [BlankOut EXCEPT !.view = "total_book", !.messages = res.msgs]
    IN
    IF df_full = <<>>
    THEN [out |-> [base EXCEPT !.messages = @ \cup {"warning: data file failed to load"},
                               !.buttons = {"back"}],
          ws |-> NoWidgets]
    ELSE
    LET available_months ==
            sorted_reverse(unique([i \in 1..Len(df_full) |-> to_period(df_full[i].Date)]))
        month_display_list ==
            [i \in 1..Len(available_months) |-> strftime(available_months[i])]
        selected_month_str ==
            WidgetValue(w.month, month_display_list, month_display_list[1])
        selected_month_period == Period(selected_month_str)
        df_monthly ==
            SelectSeq(df_full, LAMBDA r : to_period(r.Date) = selected_month_period)
        w1 == [NoWidgets EXCEPT !.month = Stored(month_display_list, selected_month_str)]
        o1 == [base EXCEPT !.month_options = month_display_list,
                           !.selected_month_str = Some(selected_month_str),
                           !.df_monthly = df_monthly]
    IN
    IF df_monthly = <<>>
    THEN [out |-> [o1 EXCEPT !.messages = @ \cup {"info: no data for the month",
                                                  "warning: no data matches"},
                             !.buttons = {"back"}],
          ws |-> w1]
    ELSE
    LET options ==
            [franchise |-> sorted(unique(Column(df_monthly, "Franchise"))),
             sector    |-> sorted(unique(Column(df_monthly, "Sector"))),
             rating    |-> SelectSeq(rating_options_all,
                               LAMBDA r : r \in Range(unique(Column(df_monthly, "Rating")))),
             product   |-> sorted(unique(Column(df_monthly, "Product")))]
        selected == [n \in MultiselectNames |-> multiselect(w[n], options[n])]
        w2 == [n \in DOMAIN NoWidgets |->
                 IF n \in MultiselectNames THEN Stored(options[n], selected[n]) ELSE w1[n]]
        o2 == [o1 EXCEPT !.total_balance = Some(SumSkipNa(Column(df_monthly, "Balance"))),
                         !.avg_margin = Some(avg_margin(df_monthly)),
                         !.options = Some(options),
                         !.selected = Some(selected)]
    IN
    IF NonNull(Column(df_monthly, "Balance")) = {}
    THEN \* int(NaN) raises ValueError at line 138; nothing catches it
         [out |-> [o2 EXCEPT !.exception = "ValueError: cannot convert float NaN to integer"],
          ws |-> w2]
    ELSE
    LET slider == slider_bounds(df_monthly)
        balance_range ==
            WidgetValue(w.balance, slider, <<slider.min_value, slider.max_value>>)
        df_filtered == apply_filters(df_monthly, selected, balance_range)
        notes == IF df_filtered = <<>> THEN {"info: no data matching filters"}
                 ELSE IF ~plotly_ok THEN {"warning: plotly not found"}
                 ELSE {}
    IN  [out |-> [o2 EXCEPT !.slider = Some(slider),
                            !.balance_range = Some(balance_range),
                            !.df_filtered = Some(df_filtered),
                            !.rating_counts =
                                IF df_filtered # <<>> /\ plotly_ok
                                THEN Some(rating_counts(df_filtered)) ELSE None,
                            !.messages = @ \cup notes,
                            !.buttons = {"back"}],
         ws |-> [w2 EXCEPT !.balance = Stored(slider, balance_range)]]

\* Lines 55-62: the main branch.
main_page == [BlankOut EXCEPT !.view = "main", !.buttons = {"view_total_book"}]

\* ------------------------------------------------------------------ inputs
Catalogue ==
    { [Date |-> <<2025, 2, 28>>, Franchise |-> "Corporate", Sector |-> "Energy",
       Rating |-> "AAA", Product |-> "Loan", Balance |-> <<100 * Unit>>, Margin |-> 1],
      [Date |-> <<2025, 2, 1>>, Franchise |-> "Retail", Sector |-> "Energy",
       Rating |-> "A", Product |-> "Loan", Balance |-> <<400 * Unit + 1>>, Margin |-> 2],
      [Date |-> <<2025, 1, 31>>, Franchise |-> "Corporate", Sector |-> "Energy",
       Rating |-> "AAA", Product |-> "Loan", Balance |-> <<100 * Unit>>, Margin |-> 1],
      [Date |-> <<2024, 2, 29>>, Franchise |-> "Retail", Sector |-> "Utilities",
       Rating |-> "D", Product |-> "RCF", Balance |-> <<-(Unit + 1)>>, Margin |-> 3],
      [Date |-> <<2025, 2, 28>>, Franchise |-> "Corporate", Sector |-> "Energy",
       Rating |-> "B", Product |-> "Loan", Balance |-> <<>>, Margin |-> 1],
      [Date |-> <<2025, 2, 28>>, Franchise |-> "Corporate", Sector |-> "Utilities",
       Rating |-> "B", Product |-> "RCF", Balance |-> <<-(100 * Unit)>>, Margin |-> 3] }

RatingRecord(r, month) ==
    [Date |-> <<2025, month, 28>>, Franchise |-> "Corporate", Sector |-> "Energy",
     Rating |-> r, Product |-> "Loan", Balance |-> <<100 * Unit>>, Margin |-> 1]

RatingCatalogue ==
    {RatingRecord(r, 2) : r \in {"AAA", "A", "B", "D"}} \cup {RatingRecord("B", 1)}

FailedFiles ==
    {[status |-> st, rows |-> <<>>] : st \in {"missing", "no_engine", "corrupt", "bad_date"}}

Files(records, n) ==
    FailedFiles \cup {[status |-> "ok", rows |-> rows] : rows \in SeqsUpTo(records, n)}

\* ------------------------------------------------------------------ state machine
InitWith(files, n, importable) ==
    /\ file \in files
    /\ plotly \in importable
    /\ cache = None
    /\ lock = 0
    /\ reads = 0
    /\ sessions = 1..n
    /\ pc = [s \in 1..n |-> "run"]
    /\ pm_view = [s \in 1..n |-> "main"]
    /\ ws = [s \in 1..n |-> NoWidgets]
    /\ event = [s \in 1..n |-> "open"]
    /\ out = [s \in 1..n |-> BlankOut]

Init == InitWith(Files(Catalogue, MaxRows), 1, {TRUE})
InitRatings == InitWith(Files(RatingCatalogue, MaxChartRows), 1, BOOLEAN)
InitConcurrent ==
    InitWith(FailedFiles \cup {[status |-> "ok", rows |-> <<RatingRecord("AAA", 2)>>]},
             NumSessions, BOOLEAN)

\* The run of session s ends having rendered page (a record [out, ws]); the
\* page remembers whether the run answered a change of month.
Finish(s, page) ==
    /\ out' = [out EXCEPT ![s] = [page.out EXCEPT !.month_changed = event[s] = "month"]]
    /\ ws' = [ws EXCEPT ![s] = page.ws]
    /\ pc' = [pc EXCEPT ![s] = "idle"]
    /\ event' = [event EXCEPT ![s] = "none"]

\* An interaction e of session s starts a run of the script: the page shown
\* is being replaced.
StartRun(s, e) ==
    /\ pc' = [pc EXCEPT ![s] = "run"]
    /\ event' = [event EXCEPT ![s] = e]
    /\ out' = [out EXCEPT ![s] = BlankOut]

\* Fault variant of compute_value_lock_free: a miss computes without the lock.
compute_value_lock_ignored(s) == TRUE

\* The compute lock of the cache entry is free.
compute_value_lock_free(s) == lock = 0

\* The script runs from the top.  In the main view it runs to its end.  In
\* the total_book view it calls load_loan_data: a cache hit returns the stored
\* result and the run goes on to its end; a miss goes for the compute lock.
RunScript(s) ==
    /\ pc[s] = "run"
    /\ UNCHANGED <<file, plotly, cache, lock, reads, sessions, pm_view>>
    /\ IF pm_view[s] = "main" THEN Finish(s, [out |-> main_page, ws |-> NoWidgets])
       ELSE IF pm_view[s] # "total_book" THEN Finish(s, [out |-> BlankOut, ws |-> NoWidgets])
       ELSE IF cache # None THEN Finish(s, total_book(cache[1], ws[s], plotly))
       ELSE /\ pc' = [pc EXCEPT ![s] = "wait_lock"]
            /\ UNCHANGED <<ws, event, out>>

\* With the lock taken the cache is read again; on a miss the function body
\* starts (pd.read_parquet, line 21).
AcquireLock(s) ==
    /\ pc[s] = "wait_lock"
    /\ compute_value_lock_free(s)
    /\ UNCHANGED <<file, plotly, cache, sessions, pm_view>>
    /\ IF cache # None
       THEN /\ Finish(s, total_book(cache[1], ws[s], plotly))
            /\ UNCHANGED <<lock, reads>>
       ELSE /\ lock' = s
            /\ reads' = reads + 1
            /\ pc' = [pc EXCEPT ![s] = "reading"]
            /\ UNCHANGED <<ws, event, out>>

\* load_loan_data returns: its result is stored, the lock released, and the
\* run goes on to its end.  An exception leaving it would end the run.
LoadReturn(s) ==
    /\ pc[s] = "reading"
    /\ UNCHANGED <<file, plotly, reads, sessions, pm_view>>
    /\ lock' = IF lock = s THEN 0 ELSE lock
    /\ LET r == load_loan_data(file)
           res == [df |-> r.df, msgs |-> r.msgs]
       IN  IF r.exc = None
           THEN /\ cache' = Some(res)
                /\ Finish(s, total_book(res, ws[s], plotly))
           ELSE /\ cache' = cache
                /\ Finish(s, [out |-> [BlankOut EXCEPT !.view = "total_book",
                                                       !.exception = r.exc[1]],
                              ws |-> NoWidgets])

\* The 'View Total Book' button: on_click=set_view, args=('total_book',).
ClickViewTotalBook(s) ==
    /\ pc[s] = "idle"
    /\ "view_total_book" \in out[s].buttons
    /\ pm_view' = [pm_view EXCEPT ![s] = set_view(@, "total_book")]
    /\ StartRun(s, "click_view_total_book")
    /\ UNCHANGED <<file, plotly, cache, lock, reads, sessions, ws>>

\* The 'Back to Portfolio Overview' button: on_click=set_view, args=('main',).
ClickBack(s) ==
    /\ pc[s] = "idle"
    /\ "back" \in out[s].buttons
    /\ pm_view' = [pm_view EXCEPT ![s] = set_view(@, "main")]
    /\ StartRun(s, "click_back")
    /\ UNCHANGED <<file, plotly, cache, lock, reads, sessions, ws>>

\* The user picks another month in the selectbox.
SelectMonth(s) ==
    /\ pc[s] = "idle"
    /\ ws[s].month # None
    /\ \E m \in Range(ws[s].month[1].id) \ {ws[s].month[1].val} :
          ws' = [ws EXCEPT ![s].month = Stored(ws[s].month[1].id, m)]
    /\ StartRun(s, "month")
    /\ UNCHANGED <<file, plotly, cache, lock, reads, sessions, pm_view>>

\* The user changes the selection of one of the four multiselects.
ChangeMultiselect(s) ==
    /\ pc[s] = "idle"
    /\ \E n \in MultiselectNames :
          /\ ws[s][n] # None
          /\ \E S \in (SUBSET Range(ws[s][n][1].id)) \ {ws[s][n][1].val} :
                ws' = [ws EXCEPT ![s][n] = Stored(ws[s][n][1].id, S)]
    /\ StartRun(s, "filter")
    /\ UNCHANGED <<file, plotly, cache, lock, reads, sessions, pm_view>>

\* The positions the user drags a slider handle to: an end of the track or one
\* step from it.
SliderPicks(sl) ==
    {v \in {sl.min_value, sl.min_value + sl.step, sl.max_value - sl.step, sl.max_value} :
        sl.min_value <= v /\ v <= sl.max_value}

\* The user moves the handles of the balance slider.
MoveSlider(s) ==
    /\ pc[s] = "idle"
    /\ ws[s].balance # None
    /\ LET sl == ws[s].balance[1].id
       IN  \E lo, hi \in SliderPicks(sl) :
              /\ lo <= hi
              /\ <<lo, hi>> # ws[s].balance[1].val
              /\ ws' = [ws EXCEPT ![s].balance = Stored(sl, <<lo, hi>>)]
    /\ StartRun(s, "filter")
    /\ UNCHANGED <<file, plotly, cache, lock, reads, sessions, pm_view>>

\* The user asks for a rerun of the page as it is.
Rerun(s) ==
    /\ pc[s] = "idle"
    /\ StartRun(s, "rerun")
    /\ UNCHANGED <<file, plotly, cache, lock, reads, sessions, pm_view, ws>>

Next ==
    \/ \E s \in sessions : RunScript(s)
    \/ \E s \in sessions : AcquireLock(s)
    \/ \E s \in sessions : LoadReturn(s)
    \/ \E s \in sessions : ClickViewTotalBook(s)
    \/ \E s \in sessions : ClickBack(s)
    \/ \E s \in sessions : SelectMonth(s)
    \/ \E s \in sessions : ChangeMultiselect(s)
    \/ \E s \in sessions : MoveSlider(s)
    \/ \E s \in sessions : Rerun(s)

\* The part of Next that reaches the loader: the sidebar widgets exist only
\* once a load has returned, and their interactions leave cache, lock and
\* reads unchanged.
NextLoad ==
    \/ \E s \in sessions : RunScript(s)
    \/ \E s \in sessions : AcquireLock(s)
    \/ \E s \in sessions : LoadReturn(s)
    \/ \E s \in sessions : ClickViewTotalBook(s)
    \/ \E s \in sessions : ClickBack(s)
    \/ \E s \in sessions : Rerun(s)

Spec == Init /\ [][Next]_vars
SpecRatings == InitRatings /\ [][Next]_vars
SpecConcurrent == InitConcurrent /\ [][NextLoad]_vars

\* ------------------------------------------------------------------ claims
\* A page of the total_book view that a completed run left for session s.
TotalBookShown(s) == pc[s] = "idle" /\ out[s].view = "total_book"

\* The default Filter Selection of a page: every offered option, full range.
DefaultSelected(o) == [n \in MultiselectNames |-> Range(o.options[1][n])]
DefaultRange(o) == <<o.slider[1].min_value, o.slider[1].max_value>>

\* C1: the filtered result is exactly the rows of the loaded table whose
\* Date lies in the selected month, whose Franchise, Sector, Credit Rating and
\* Product are each in their selected set, and whose Balance lies in
\* [low, high] (inclusive), in the table's order.
C1_FilteredIsConjunction ==
    \A s \in sessions :
        out[s].df_filtered # None =>
            LET sel == out[s].selected[1]
                low == out[s].balance_range[1][1]
                high == out[s].balance_range[1][2]
                Holds(r) ==
                    /\ r.Date[1] * 100 + r.Date[2] = out[s].selected_month_str[1]
                    /\ r.Franchise \in sel.franchise
                    /\ r.Sector \in sel.sector
                    /\ r.Rating \in sel.rating
                    /\ r.Product \in sel.product
                    /\ r.Balance # <<>>
                    /\ low * Unit <= r.Balance[1]
                    /\ r.Balance[1] <= high * Unit
            IN  out[s].df_filtered[1] = SelectSeq(file.rows, Holds)

\* A narrowed Franchise selection keeps one of the two rows of the month.
C1_Witness ==
    \E s \in sessions :
        /\ out[s].df_filtered # None
        /\ Len(out[s].df_monthly) = 2
        /\ Len(out[s].df_filtered[1]) = 1
        /\ out[s].selected[1].franchise # Range(out[s].options[1].franchise)

\* C2: no exception leaves load_loan_data: once a call has returned there is
\* a result; a failed read or Date conversion gives an empty table with an
\* error put on the page; a non-empty table comes only from a file whose read
\* and Date conversion both succeeded.
LoadExceptions == {"FileNotFoundError", "ImportError", "ArrowInvalid", "KeyError"}

C2_LoaderNeverRaises ==
    /\ \A s \in sessions : out[s].exception \notin LoadExceptions
    /\ (reads > 0 /\ \A s \in sessions : pc[s] # "reading") => cache # None
    /\ cache # None =>
          /\ file.status # "ok" => cache[1].df = <<>> /\ cache[1].msgs # {}
          /\ cache[1].df # <<>> => file.status = "ok" /\ cache[1].df = file.rows
          /\ \A s \in sessions : TotalBookShown(s) => cache[1].msgs \subseteq out[s].messages

\* A corrupt file was read: empty table, generic error shown.
C2_Witness ==
    /\ file.status = "corrupt"
    /\ cache # None
    /\ cache[1].df = <<>>
    /\ \E s \in sessions : TotalBookShown(s) /\ "error: loading the data file" \in out[s].messages

\* C3: the view state starts as main, is always main or total_book, and a
\* step changes it only when it is a click of one of the two buttons, which
\* set it to total_book and to main.
C3_ViewState ==
    /\ \A s \in sessions : pm_view[s] = "main"
    /\ [](\A s \in sessions : pm_view[s] \in {"main", "total_book"})
    /\ [][\A s \in sessions :
            /\ pm_view'[s] # pm_view[s] =>
                  event'[s] \in {"click_view_total_book", "click_back"} /\ pc[s] = "idle"
            /\ (pc[s] = "idle" /\ event'[s] = "click_view_total_book") =>
                  pm_view'[s] = "total_book"
            /\ (pc[s] = "idle" /\ event'[s] = "click_back") => pm_view'[s] = "main"]_vars

\* A total_book page after a month change and a narrowed selection.
C3_Witness ==
    \E s \in sessions :
        /\ TotalBookShown(s)
        /\ pm_view[s] = "total_book"
        /\ out[s].month_changed
        /\ out[s].selected # None
        /\ out[s].selected[1] # DefaultSelected(out[s])

\* The month-filtered rows of the loaded table, and their sums.
MonthRows(s) ==
    SelectSeq(file.rows,
              LAMBDA r : r.Date[1] * 100 + r.Date[2] = out[s].selected_month_str[1])

RECURSIVE TotalBalance(_)
TotalBalance(rows) ==
    IF rows = <<>> THEN 0
    ELSE (IF rows[1].Balance = <<>> THEN 0 ELSE rows[1].Balance[1]) + TotalBalance(Tail(rows))

RECURSIVE MarginTimesBalance(_)
MarginTimesBalance(rows) ==
    IF rows = <<>> THEN 0
    ELSE (IF rows[1].Balance = <<>> THEN 0 ELSE rows[1].Margin * rows[1].Balance[1])
         + MarginTimesBalance(Tail(rows))

NoNullBalance(rows) == \A i \in 1..Len(rows) : rows[i].Balance # <<>>

\* The fraction q = <<num, den>> equals a / b.
FractionIs(q, a, b) == q # <<>> /\ q[2] # 0 /\ q[1] * b = a * q[2]

\* C4 as stated: the weighted-average Margin of the summary is
\* sum(Margin*Balance)/sum(Balance) over the month's rows, and 0 when the
\* total Balance is 0 (taken over months without a null Balance).
C4_Original ==
    \A s \in sessions :
        (out[s].avg_margin # None /\ NoNullBalance(MonthRows(s))) =>
            IF TotalBalance(MonthRows(s)) = 0
            THEN FractionIs(out[s].avg_margin[1], 0, 1)
            ELSE FractionIs(out[s].avg_margin[1], MarginTimesBalance(MonthRows(s)),
                            TotalBalance(MonthRows(s)))

\* C4 amended: the weighted-average Margin is sum(Margin*Balance)/sum(Balance)
\* when the total Balance is greater than 0 (not-a-number if a Balance of the
\* month is null), and 0 whenever the total Balance is 0 or negative.
C4_WeightedAverage ==
    \A s \in sessions :
        out[s].avg_margin # None =>
            LET rows == MonthRows(s)
            IN  /\ out[s].total_balance[1] = TotalBalance(rows)
                /\ TotalBalance(rows) <= 0 => FractionIs(out[s].avg_margin[1], 0, 1)
                /\ (TotalBalance(rows) > 0 /\ NoNullBalance(rows)) =>
                      FractionIs(out[s].avg_margin[1], MarginTimesBalance(rows),
                                 TotalBalance(rows))
                /\ (TotalBalance(rows) > 0 /\ ~NoNullBalance(rows)) =>
                      out[s].avg_margin[1] = <<>>

\* A month whose total Balance is negative shows 0.
C4_Witness ==
    \E s \in sessions :
        /\ out[s].avg_margin # None
        /\ TotalBalance(MonthRows(s)) < 0
        /\ MarginTimesBalance(MonthRows(s)) # 0
        /\ out[s].avg_margin[1] = <<0, 1>>

\* C5: pd.read_parquet is started at most once, whatever the sessions do.
C5_ReadAtMostOnce == reads <= 1

\* Two sessions make their first load call at the same time: one reads, the
\* other waits for the lock.
C5_Witness ==
    /\ reads = 1
    /\ \E s, u \in sessions : pc[s] = "reading" /\ pc[u] = "wait_lock"

\* C6: the rating chart data lists the ratings of the fixed scale that occur
\* in the filtered rows, in the order of the scale, each with the number of
\* filtered rows that have it.
C6_RatingOrder ==
    \A s \in sessions :
      /\ (out[s].df_filtered # None /\ out[s].df_filtered # Some(<<>>) /\ plotly) =>
            out[s].rating_counts # None
      /\ out[s].rating_counts # None =>
            LET rows == out[s].df_filtered[1]
                present == SelectSeq(rating_options_all,
                               LAMBDA r : \E i \in 1..Len(rows) : rows[i].Rating = r)
            IN  /\ out[s].rating_counts[1] =
                      [i \in 1..Len(present) |->
                          [rating |-> present[i],
                           count |-> Cardinality({j \in 1..Len(rows) :
                                                     rows[j].Rating = present[i]})]]
                /\ \A i \in 1..Len(rows) : rows[i].Rating \in Range(rating_options_all)

\* The scale order differs from the count order (and from the row order).
C6_Witness ==
    \E s \in sessions :
        /\ out[s].rating_counts # None
        /\ Len(out[s].rating_counts[1]) >= 2
        /\ out[s].rating_counts[1][1].count < out[s].rating_counts[1][2].count
        /\ out[s].df_filtered[1][1].Rating # out[s].rating_counts[1][1].rating

\* The run of session s ends in this step with the sidebar filters built.
FiltersBuilt(s) == pc[s] # "idle" /\ pc'[s] = "idle" /\ out'[s].selected # None

\* C7 as stated: the page rendered after a month change has the default
\* Filter Selection of the new month; a rerun of the page keeps the selection.
C7_Original ==
    [][\A s \in sessions :
          /\ (FiltersBuilt(s) /\ event[s] = "month") =>
                /\ out'[s].selected[1] = DefaultSelected(out'[s])
                /\ out'[s].slider # None => out'[s].balance_range[1] = DefaultRange(out'[s])
          /\ (FiltersBuilt(s) /\ event[s] = "rerun") =>
                \A n \in MultiselectNames :
                    ws[s][n] # None => out'[s].selected[1][n] = ws[s][n][1].val]_vars

\* C7 amended: after a month change each filter control whose parameters (its
\* option list; for the slider its bounds and step) are those it had for the
\* previous month keeps the value the user had selected, and a control whose
\* parameters differ shows the default of the new month; while the month is
\* unchanged every selection persists across runs until the user changes it.
C7_RebuiltOnlyWhenParametersChange ==
    [][\A s \in sessions :
          FiltersBuilt(s) =>
             /\ \A n \in MultiselectNames :
                   out'[s].selected[1][n] =
                       IF ws[s][n] # None /\ ws[s][n][1].id = out'[s].options[1][n]
                       THEN ws[s][n][1].val
                       ELSE Range(out'[s].options[1][n])
             /\ out'[s].slider # None =>
                   out'[s].balance_range[1] =
                       IF ws[s].balance # None /\ ws[s].balance[1].id = out'[s].slider[1]
                       THEN ws[s].balance[1].val
                       ELSE DefaultRange(out'[s])
             /\ event[s] \in {"rerun", "filter"} =>
                   /\ \A n \in MultiselectNames :
                         ws[s][n] # None => out'[s].selected[1][n] = ws[s][n][1].val
                   /\ (out'[s].slider # None /\ ws[s].balance # None) =>
                         out'[s].balance_range[1] = ws[s].balance[1].val]_vars

\* After a month change the page still shows a narrowed Franchise selection.
C7_Witness ==
    \E s \in sessions :
        /\ TotalBookShown(s)
        /\ out[s].month_changed
        /\ out[s].selected # None
        /\ out[s].selected[1].franchise # Range(out[s].options[1].franchise)

\* C8: every completed run in the total_book view offers the Back button.
C8_BackAlwaysOffered ==
    \A s \in sessions : TotalBookShown(s) => "back" \in out[s].buttons

\* The least and greatest Balance of the month, in units.
MinBalance(s) == Min({r.Balance[1] : r \in {x \in Range(out[s].df_monthly) : x.Balance # <<>>}})
MaxBalance(s) == Max({r.Balance[1] : r \in {x \in Range(out[s].df_monthly) : x.Balance # <<>>}})

\* The whole number of pounds nearest to zero-ward of u units.
TowardZero(u) ==
    CHOOSE k \in (IF u < 0 THEN u ELSE -u)..(IF u < 0 THEN -u ELSE u) :
        IF u >= 0 THEN k * Unit <= u /\ u < (k + 1) * Unit
        ELSE (k - 1) * Unit < u /\ u <= k * Unit

C10_DefaultKeepsEveryRow ==
    \A s \in sessions :
        (/\ out[s].df_filtered # None
         /\ out[s].selected[1] = DefaultSelected(out[s])
         /\ out[s].balance_range[1] = DefaultRange(out[s]))
        => out[s].df_filtered[1] = out[s].df_monthly

====
